---- MODULE Spec2Model ----
(***************************************************************************)
(* Model of generate_mapping.py: the Excel -> IFC property mapping         *)
(* generator.  Text cells are sequences of character codes (Python str),   *)
(* so that strip, lower, split and the code-point ordering used by         *)
(* sorted() are computed the way the interpreter computes them.  Column    *)
(* names, file names and fixed markers, which the program only compares    *)
(* for equality, are TLA+ strings.                                         *)
(***************************************************************************)
EXTENDS Integers, Sequences, FiniteSets, TLC

VARIABLES
    pc,             \* position of the running program
    workbook,       \* the Excel source on disk
    args,           \* argparse.Namespace of main
    fs,             \* path -> file content, for the files that exist
    dirs,           \* directories that exist
    fs0,            \* the files as they were when the run started
    dirs0,          \* the directories as they were when the run started
    main_records,   \* `records` of main (result of its own load_source)
    records,        \* `records` of generate_mapping / build_property_sets
    property_sets,  \* `property_sets` of build_property_sets
    csv_rows,       \* `csv_rows` of build_property_sets
    produced,       \* `produced` of generate_mapping, in insertion order
    mirror_i,       \* index of the mirroring loop over produced.items()
    error,          \* the uncaught exception that ended the run, if any
    written,        \* paths written by write_json / write_csv in this run
    copied,         \* <<source, target>> pairs copied by the mirroring loop
    raw,            \* the row handed to MappingRecord.from_raw
    raw_result      \* what MappingRecord.from_raw did with it

vars == <<pc, workbook, args, fs, dirs, fs0, dirs0, main_records, records,
          property_sets, csv_rows, produced, mirror_i, error, written, copied,
          raw, raw_result>>

runvars == <<workbook, args, fs, dirs, fs0, dirs0, main_records, produced,
             mirror_i, error, written, copied>>

----------------------------------------------------------------------------
(* Bounds of the model *)

\* longest generated cell text in the from_raw specification
MaxCellLen == 3

\* most data rows in the workbook of a run
MaxRows == 2

\* most records handed to build_property_sets directly
MaxRecords == 3

----------------------------------------------------------------------------
(* Python str operations, on sequences of character codes *)

\* ""
Empty == <<>>

\* characters removed by str.strip(): \t \n \v \f \r FS GS RS US space
Whitespace == {9, 10, 11, 12, 13, 28, 29, 30, 31, 32}

RECURSIVE lstrip(_)
lstrip(s) ==
    IF s # <<>> /\ Head(s) \in Whitespace THEN lstrip(Tail(s)) ELSE s

RECURSIVE rstrip(_)
rstrip(s) ==
    IF s # <<>> /\ s[Len(s)] \in Whitespace
    THEN rstrip(SubSeq(s, 1, Len(s) - 1))
    ELSE s

strip(s) == rstrip(lstrip(s))

\* str.lower() on the ASCII letters
lower(s) == [i \in 1..Len(s) |-> IF s[i] \in 65..90 THEN s[i] + 32 ELSE s[i]]

\* a < b for Python strings: lexicographic on code points
RECURSIVE str_lt(_, _)
str_lt(a, b) ==
    IF b = <<>> THEN FALSE
    ELSE IF a = <<>> THEN TRUE
    ELSE IF Head(a) # Head(b) THEN Head(a) < Head(b)
    ELSE str_lt(Tail(a), Tail(b))

str_le(a, b) == a = b \/ str_lt(a, b)

\* str.replace(old, new) for single characters
replace(s, old, new) == [i \in 1..Len(s) |-> IF s[i] = old THEN new ELSE s[i]]

\* sorted(S) for a set of distinct strings
RECURSIVE sorted_set(_)
sorted_set(S) ==
    IF S = {} THEN <<>>
    ELSE LET m == CHOOSE x \in S : \A y \in S : str_le(x, y)
         IN  <<m>> \o sorted_set(S \ {m})

\* list.insert keeping the order of equal keys: x goes after every element
\* whose key is <= key(x) (sorted() is stable)
RECURSIVE insert_by_name(_, _)
insert_by_name(sorted, x) ==
    IF sorted = <<>> THEN <<x>>
    ELSE IF str_lt(x.ifc_name, Head(sorted).ifc_name) THEN <<x>> \o sorted
    ELSE <<Head(sorted)>> \o insert_by_name(Tail(sorted), x)

----------------------------------------------------------------------------
(* Module constants *)

REQUIRED_COLUMNS == <<"PSet", "Nome_IFC", "Nome_Civil", "Tipo_IFC", "Entita_IFC">>

\* the first alias is the mis-decoded spelling of "Entita_IFC" with an
\* accented a; it is an opaque key here
COLUMN_ALIASES ==
    [c \in {"Entit??_IFC", "Entity_IFC", "Civil_Name", "IFC_Name"} |->
        CASE c = "Entit??_IFC" -> "Entita_IFC"
          [] c = "Entity_IFC" -> "Entita_IFC"
          [] c = "Civil_Name" -> "Nome_Civil"
          [] c = "IFC_Name" -> "Nome_IFC"]

\* "CordhLength"
CordhLength == <<67,111,114,100,104,76,101,110,103,116,104>>

\* "ChordLength"
ChordLength == <<67,104,111,114,100,76,101,110,103,116,104>>

NAME_CORRECTIONS == [n \in {CordhLength} |-> ChordLength]

\* "IfcLabel"
IfcLabel == <<73,102,99,76,97,98,101,108>>

\* "IfcReal"
IfcReal == <<73,102,99,82,101,97,108>>

ALLOWED_TYPES == {
    <<73,102,99,66,111,111,108,101,97,110>>,                                    \* IfcBoolean
    <<73,102,99,73,100,101,110,116,105,102,105,101,114>>,                       \* IfcIdentifier
    <<73,102,99,73,110,116,101,103,101,114>>,                                   \* IfcInteger
    IfcLabel,
    <<73,102,99,76,101,110,103,116,104,77,101,97,115,117,114,101>>,             \* IfcLengthMeasure
    <<73,102,99,76,111,103,105,99,97,108>>,                                     \* IfcLogical
    <<73,102,99,80,111,115,105,116,105,118,101,76,101,110,103,116,104,77,101,97,115,117,114,101>>, \* IfcPositiveLengthMeasure
    <<73,102,99,82,97,116,105,111,77,101,97,115,117,114,101>>,                  \* IfcRatioMeasure
    IfcReal,
    <<73,102,99,84,101,120,116>>                                                \* IfcText
}

DEFAULT_SOURCE == "Civil 3D"

DEFAULT_SOURCE_REFERENCE == "UserDefined"

\* the character class [;,\n] of ENTITY_SPLIT_PATTERN
ENTITY_SPLIT_PATTERN == {59, 44, 10}

----------------------------------------------------------------------------
(* re.Pattern.split for a pattern of the form [class]+ *)

\* index of the first character of s in class at or after i, Len(s)+1 if none
RECURSIVE find_in(_, _, _)
find_in(s, class, i) ==
    IF i > Len(s) THEN Len(s) + 1
    ELSE IF s[i] \in class THEN i
    ELSE find_in(s, class, i + 1)

\* index of the first character of s not in class at or after i
RECURSIVE find_not_in(_, _, _)
find_not_in(s, class, i) ==
    IF i > Len(s) THEN Len(s) + 1
    ELSE IF s[i] \notin class THEN i
    ELSE find_not_in(s, class, i + 1)

\* the pieces of s between the maximal runs of class characters; a run at
\* either end leaves an empty piece there, as re.split does
RECURSIVE re_split(_, _)
re_split(class, s) ==
    LET i == find_in(s, class, 1)
    IN  IF i > Len(s) THEN <<s>>
        ELSE LET j == find_not_in(s, class, i)
             IN  <<SubSeq(s, 1, i - 1)>> \o re_split(class, SubSeq(s, j, Len(s)))

\* [f(x) for x in seq if p(x)] with f = p = str.strip
RECURSIVE stripped_nonempty(_)
stripped_nonempty(pieces) ==
    IF pieces = <<>> THEN <<>>
    ELSE LET e == strip(Head(pieces))
         IN  (IF e # <<>> THEN <<e>> ELSE <<>>) \o stripped_nonempty(Tail(pieces))

----------------------------------------------------------------------------
(* Results of operations that may raise *)

Ok(v) == [ok |-> TRUE, error |-> "", detail |-> "", value |-> v]

Raise(exc, what) == [ok |-> FALSE, error |-> exc, detail |-> what, value |-> <<>>]

----------------------------------------------------------------------------
(* MappingRecord.from_raw *)

\* record.get(column, "") followed by str(value).strip()
normalise(record, column) ==
    IF column \in DOMAIN record THEN strip(record[column]) ELSE Empty

\* the entities tuple built from the stripped Entita_IFC text
split_entities(entities_text) ==
    stripped_nonempty(re_split(ENTITY_SPLIT_PATTERN, replace(entities_text, 47, 44)))

\* the looser variant: an empty Tipo_IFC is replaced by IfcLabel
from_raw_default_type(record) ==
    LET PSet == normalise(record, "PSet")
        Nome_IFC == normalise(record, "Nome_IFC")
        Nome_Civil == normalise(record, "Nome_Civil")
        Tipo_IFC == IF normalise(record, "Tipo_IFC") = Empty
                    THEN IfcLabel ELSE normalise(record, "Tipo_IFC")
        entities == split_entities(normalise(record, "Entita_IFC"))
    IN  IF PSet = Empty \/ Nome_IFC = Empty \/ Nome_Civil = Empty \/ entities = <<>>
        THEN Raise("ValueError", "required value is empty")
        ELSE Ok([pset |-> PSet, ifc_name |-> Nome_IFC, civil_name |-> Nome_Civil,
                 ifc_type |-> Tipo_IFC, entities |-> entities])

from_raw(record) ==
    LET PSet == normalise(record, "PSet")
        Nome_IFC == normalise(record, "Nome_IFC")
        Nome_Civil == normalise(record, "Nome_Civil")
        Tipo_IFC == normalise(record, "Tipo_IFC")
        entities_text == normalise(record, "Entita_IFC")
        corrected_name == IF Nome_IFC \in DOMAIN NAME_CORRECTIONS
                          THEN NAME_CORRECTIONS[Nome_IFC] ELSE Nome_IFC
        entities == split_entities(entities_text)
    IN  IF PSet = Empty THEN Raise("ValueError", "PSet column contains empty value")
        ELSE IF Nome_IFC = Empty THEN Raise("ValueError", "Nome_IFC is required")
        ELSE IF Nome_Civil = Empty THEN Raise("ValueError", "Nome_Civil is required")
        ELSE IF Tipo_IFC \notin ALLOWED_TYPES
             THEN Raise("ValueError", "Tipo_IFC is not an allowed IFC measure type")
        ELSE IF entities_text = Empty
             THEN Raise("ValueError", "Entita_IFC must contain at least one entity")
        ELSE IF entities = <<>>
             THEN Raise("ValueError", "Entita_IFC must contain at least one entity")
        ELSE Ok([pset |-> PSet, ifc_name |-> corrected_name, civil_name |-> Nome_Civil,
                 ifc_type |-> Tipo_IFC, entities |-> entities])

----------------------------------------------------------------------------
(* load_source *)

Range(seq) == {seq[i] : i \in 1..Len(seq)}

\* pd.read_excel(path, sheet_name=sheet, dtype=str): sheet is <<>> for None
\* and <<name>> for a name.  With sheet_name=None pandas returns a dict of
\* every worksheet's DataFrame, keyed by sheet name; with a name it returns
\* that worksheet's DataFrame, and raises when there is no such worksheet.
read_excel(book, sheet) ==
    IF sheet = <<>>
    THEN Ok([kind |-> "dict",
             items |-> [i \in 1..Len(book.sheets) |->
                          [kind |-> "DataFrame", name |-> book.sheets[i].name,
                           columns |-> book.sheets[i].columns,
                           rows |-> book.sheets[i].rows]]])
    ELSE IF \E i \in 1..Len(book.sheets) : book.sheets[i].name = sheet[1]
    THEN LET i == CHOOSE i \in 1..Len(book.sheets) : book.sheets[i].name = sheet[1]
         IN  Ok([kind |-> "DataFrame", name |-> book.sheets[i].name,
                 columns |-> book.sheets[i].columns, rows |-> book.sheets[i].rows])
    ELSE Raise("ValueError", "Worksheet not found")

\* frame.rename(columns={alias: target ...})
rename_columns(columns) ==
    [i \in 1..Len(columns) |->
        IF columns[i] \in DOMAIN COLUMN_ALIASES
        THEN COLUMN_ALIASES[columns[i]] ELSE columns[i]]

\* [column for column in REQUIRED_COLUMNS if column not in frame.columns]
missing_columns(columns) ==
    SelectSeq(REQUIRED_COLUMNS, LAMBDA c : c \notin Range(columns))

\* frame.to_dict(orient="records"): one column -> cell mapping per row
to_dict(columns, rows) ==
    [r \in 1..Len(rows) |->
        [c \in Range(columns) |->
            rows[r][CHOOSE i \in 1..Len(columns) : columns[i] = c]]]

\* a loop that drops the rows from_raw rejects instead of raising
RECURSIVE load_rows_skip_invalid(_, _, _, _)
load_rows_skip_invalid(raws, seen_pairs, seen_civil, acc) ==
    IF raws = <<>> THEN Ok(acc)
    ELSE LET made == from_raw(Head(raws))
             record == made.value
             key == <<record.pset, record.ifc_name>>
             civil_key == <<record.pset, lower(record.civil_name)>>
         IN  IF ~made.ok \/ key \in seen_pairs \/ civil_key \in seen_civil
             THEN load_rows_skip_invalid(Tail(raws), seen_pairs, seen_civil, acc)
             ELSE load_rows_skip_invalid(Tail(raws), seen_pairs \cup {key},
                                         seen_civil \cup {civil_key},
                                         Append(acc, record))

\* the loop of load_source over frame.to_dict(orient="records")
RECURSIVE load_rows(_, _, _, _)
load_rows(raws, seen_pairs, seen_civil, acc) ==
    IF raws = <<>> THEN Ok(acc)
    ELSE LET made == from_raw(Head(raws))
             record == made.value
             key == <<record.pset, record.ifc_name>>
             civil_key == <<record.pset, lower(record.civil_name)>>
         IN  IF ~made.ok THEN made
             ELSE IF key \in seen_pairs
                  THEN Raise("ValueError", "Duplicate IFC property")
             ELSE IF civil_key \in seen_civil
                  THEN Raise("ValueError", "Duplicate Civil 3D property name")
             ELSE load_rows(Tail(raws), seen_pairs \cup {key},
                            seen_civil \cup {civil_key}, Append(acc, record))

load_source(book, sheet) ==
    IF ~book.exists THEN Raise("FileNotFoundError", "source path")
    ELSE LET read == read_excel(book, sheet)
             frame == read.value
         IN  IF ~read.ok THEN Raise("RuntimeError", "Failed to read Excel workbook")
             ELSE IF frame.kind # "DataFrame"
                  THEN Raise("AttributeError", "'dict' object has no attribute 'rename'")
             ELSE LET columns == rename_columns(frame.columns)
                  IN  IF missing_columns(columns) # <<>>
                      THEN Raise("ValueError", "Missing required columns in Excel source")
                      ELSE load_rows(to_dict(columns, frame.rows), {}, {}, <<>>)

----------------------------------------------------------------------------
(* build_property_sets *)

\* grouped_entities built from every record, whatever its pset
grouped_entities_of_all(recs, pset) ==
    UNION {Range(recs[i].entities) : i \in 1..Len(recs)}

\* grouped_records[pset]: the records of the group, in input order
grouped_records(recs, pset) == SelectSeq(recs, LAMBDA r : r.pset = pset)

\* grouped_entities[pset]: the set updated with each member's entities
grouped_entities(recs, pset) ==
    UNION {Range(recs[i].entities) : i \in {j \in 1..Len(recs) : recs[j].pset = pset}}

\* sorted(group, key=lambda item: item.ifc_name)
RECURSIVE sorted_by_ifc_name(_)
sorted_by_ifc_name(group) ==
    IF group = <<>> THEN <<>>
    ELSE insert_by_name(sorted_by_ifc_name(SubSeq(group, 1, Len(group) - 1)),
                        group[Len(group)])

\* the dict appended to payload
property_entry(record) ==
    [Name |-> record.ifc_name, CivilName |-> record.civil_name,
     IFCType |-> record.ifc_type, Source |-> DEFAULT_SOURCE_REFERENCE,
     IsExported |-> TRUE]

\* a row that takes its CivilSource from the IFC name
csv_row_from_ifc_name(pset, record) ==
    [PSet |-> pset, IFCName |-> record.ifc_name, IsActive |-> "TRUE",
     Group |-> "Property", CivilSource |-> record.ifc_name]

\* the dict appended to csv_rows
csv_row(pset, record) ==
    [PSet |-> pset, IFCName |-> record.ifc_name, IsActive |-> "TRUE",
     Group |-> "Property", CivilSource |-> record.civil_name]

\* the dict appended to property_sets for one group
property_set(recs, pset) ==
    LET members == sorted_by_ifc_name(grouped_records(recs, pset))
    IN  [Name |-> pset, Source |-> DEFAULT_SOURCE,
         PrimaryMeasureType |-> "IfcPropertySet",
         ApplicableEntities |-> sorted_set(grouped_entities(recs, pset)),
         Properties |-> [k \in 1..Len(members) |-> property_entry(members[k])]]

\* the csv rows appended while one group is processed
group_csv_rows(recs, pset) ==
    LET members == sorted_by_ifc_name(grouped_records(recs, pset))
    IN  [k \in 1..Len(members) |-> csv_row(pset, members[k])]

RECURSIVE concat_groups(_, _)
concat_groups(recs, psets) ==
    IF psets = <<>> THEN <<>>
    ELSE group_csv_rows(recs, Head(psets)) \o concat_groups(recs, Tail(psets))

build_property_sets(recs) ==
    LET psets == sorted_set({recs[i].pset : i \in 1..Len(recs)})
    IN  [property_sets |-> [k \in 1..Len(psets) |-> property_set(recs, psets[k])],
         csv_rows |-> concat_groups(recs, psets)]

----------------------------------------------------------------------------
(* Files: a path is <<resolved directory, file name>> *)

Content(doc, n) == [doc |-> doc, n |-> n]

\* path.open("w") / Path.write_bytes: create or overwrite
put(files, path, content) ==
    [p \in DOMAIN files \cup {path} |-> IF p = path THEN content ELSE files[p]]

\* source.resolve() == target.resolve() taken on the directories alone
same_directory(source, target) == source[1] = target[1]

\* source.resolve() == target.resolve()
resolves_equal(source, target) == source = target

json_output == <<args.output, "mapping_validated.json">>

csv_output == <<args.output, "mapping_validated.csv">>

optional_mapping_path == <<args.output, "IfcInfraExportMapping.json">>

optional_configuration_path == <<args.output, "IfcInfraConfiguration.json">>

----------------------------------------------------------------------------
(* Inputs of a run *)

\* "P", "Q", "a", "A", "B", "x", "X", "y", "W", "S/W", ";", "IfcFoo"
GoodRow == <<<<80>>, <<97>>, <<120>>, IfcLabel, <<87>>>>

CellVariants ==
    <<{Empty, <<81>>},
      {Empty, <<65>>, <<66>>},
      {Empty, <<88>>, <<121>>},
      {Empty, <<73,102,99,70,111,111>>},
      {Empty, <<59>>, <<83,47,87>>}>>

\* the rows that differ from GoodRow in at most one cell
RowSet ==
    {GoodRow} \cup
    UNION {{[GoodRow EXCEPT ![c] = v] : v \in CellVariants[c]} : c \in 1..5}

SeqsUpTo(S, n) == UNION {[1..k -> S] : k \in 0..n}

Sheet(columns, rows) == [name |-> "Sheet1", columns |-> columns, rows |-> rows]

Workbooks ==
    {[exists |-> FALSE, sheets |-> <<>>]}
    \cup {[exists |-> TRUE, sheets |-> <<Sheet(REQUIRED_COLUMNS, rows)>>] :
            rows \in SeqsUpTo(RowSet, MaxRows)}
    \cup {[exists |-> TRUE, sheets |-> <<Sheet(columns, <<GoodRow>>)>>] :
            columns \in {<<"PSet", "IFC_Name", "Civil_Name", "Tipo_IFC", "Entity_IFC">>,
                         <<"PSet", "Nome_IFC", "Nome_Civil", "Entita_IFC">>}}

\* sheet is <<>> when --sheet is omitted (None)
ArgSets ==
    [sheet : {<<>>, <<"Sheet1">>, <<"Other">>},
     validate_only : BOOLEAN,
     skip_optional : BOOLEAN,
     output : {"mapping"},
     config_dir : {"mapping", "IfcInfraExportConfiguration"}]

\* what an earlier complete run with the same arguments left on disk
PreviousRun(a) ==
    LET paths == {<<a.output, "mapping_validated.json">>,
                  <<a.output, "mapping_validated.csv">>,
                  <<a.output, "IfcInfraExportMapping.json">>,
                  <<a.output, "IfcInfraConfiguration.json">>,
                  <<a.config_dir, "IfcInfraExportPropertyMapping.json">>,
                  <<a.config_dir, "IfcInfraExportPropertyMapping.csv">>,
                  <<a.config_dir, "IfcInfraExportMapping.json">>,
                  <<a.config_dir, "IfcInfraConfiguration.json">>}
    IN  [p \in paths |-> Content("previous run", 0)]

NoFiles == [p \in {} |-> Content("", 0)]

NoResult == Raise("", "")

Init ==
    /\ pc = "main"
    /\ workbook \in Workbooks
    /\ args \in ArgSets
    /\ \/ fs = NoFiles /\ dirs = {}
       \/ fs = PreviousRun(args) /\ dirs = {args.output, args.config_dir}
    /\ fs0 = fs
    /\ dirs0 = dirs
    /\ main_records = <<>>
    /\ records = <<>>
    /\ property_sets = <<>>
    /\ csv_rows = <<>>
    /\ produced = <<>>
    /\ mirror_i = 0
    /\ error = NoResult
    /\ written = {}
    /\ copied = {}
    /\ raw = <<>>
    /\ raw_result = NoResult

----------------------------------------------------------------------------
(* main and generate_mapping *)

\* main: load_source, then the --validate-only return or generate_mapping
MainLoadSource ==
    /\ pc = "main"
    /\ LET loaded == load_source(workbook, args.sheet)
       IN  IF ~loaded.ok
           THEN /\ pc' = "failed"
                /\ error' = loaded
                /\ main_records' = main_records
           ELSE /\ pc' = IF args.validate_only THEN "done" ELSE "generate_mapping"
                /\ error' = error
                /\ main_records' = loaded.value
    /\ UNCHANGED <<workbook, args, fs, dirs, fs0, dirs0, records, property_sets,
                   csv_rows, produced, mirror_i, written, copied, raw, raw_result>>

\* generate_mapping: load_source again, then build_property_sets
GenerateLoadAndBuild ==
    /\ pc = "generate_mapping"
    /\ LET loaded == load_source(workbook, args.sheet)
           built == build_property_sets(loaded.value)
       IN  IF ~loaded.ok
           THEN /\ pc' = "failed"
                /\ error' = loaded
                /\ UNCHANGED <<records, property_sets, csv_rows>>
           ELSE /\ pc' = "write_json"
                /\ error' = error
                /\ records' = loaded.value
                /\ property_sets' = built.property_sets
                /\ csv_rows' = built.csv_rows
    /\ UNCHANGED <<workbook, args, fs, dirs, fs0, dirs0, main_records, produced,
                   mirror_i, written, copied, raw, raw_result>>

\* write_json(mapping_document, json_output)
WriteMappingJson ==
    /\ pc = "write_json"
    /\ dirs' = dirs \cup {args.output}
    /\ fs' = put(fs, json_output, Content("mapping_document", Len(records)))
    /\ written' = written \cup {json_output}
    /\ pc' = "write_csv"
    /\ UNCHANGED <<workbook, args, fs0, dirs0, main_records, records, property_sets,
                   csv_rows, produced, mirror_i, error, copied, raw, raw_result>>

\* write_csv(csv_rows, csv_output), then produced = {...}
WriteMappingCsv ==
    /\ pc = "write_csv"
    /\ IF csv_rows = <<>>
       THEN UNCHANGED <<fs, dirs, written>>
       ELSE /\ dirs' = dirs \cup {args.output}
            /\ fs' = put(fs, csv_output, Content("csv", Len(csv_rows)))
            /\ written' = written \cup {csv_output}
    /\ produced' = <<<<"IfcInfraExportPropertyMapping.json", json_output>>,
                     <<"IfcInfraExportPropertyMapping.csv", csv_output>>>>
    /\ pc' = IF ~args.skip_optional THEN "write_optional" ELSE "mirror_mkdir"
    /\ UNCHANGED <<workbook, args, fs0, dirs0, main_records, records, property_sets,
                   csv_rows, mirror_i, error, copied, raw, raw_result>>

\* the include_optional block: two write_json calls and produced.update
WriteOptional ==
    /\ pc = "write_optional"
    /\ dirs' = dirs \cup {args.output}
    /\ fs' = put(put(fs, optional_mapping_path, Content("mapping_summary", 0)),
                 optional_configuration_path, Content("configuration", 0))
    /\ written' = written \cup {optional_mapping_path, optional_configuration_path}
    /\ produced' = produced \o
                   <<<<"IfcInfraExportMapping.json", optional_mapping_path>>,
                     <<"IfcInfraConfiguration.json", optional_configuration_path>>>>
    /\ pc' = "mirror_mkdir"
    /\ UNCHANGED <<workbook, args, fs0, dirs0, main_records, records, property_sets,
                   csv_rows, mirror_i, error, copied, raw, raw_result>>

\* config_dir.mkdir(parents=True, exist_ok=True)
MirrorMkdir ==
    /\ pc = "mirror_mkdir"
    /\ dirs' = dirs \cup {args.config_dir}
    /\ mirror_i' = 1
    /\ pc' = "mirror"
    /\ UNCHANGED <<workbook, args, fs, fs0, dirs0, main_records, records,
                   property_sets, csv_rows, produced, error, written, copied,
                   raw, raw_result>>

\* one iteration of the loop over produced.items()
MirrorFile ==
    /\ pc = "mirror"
    /\ mirror_i <= Len(produced)
    /\ LET filename == produced[mirror_i][1]
           source == produced[mirror_i][2]
           target == <<args.config_dir, filename>>
       IN  IF resolves_equal(source, target)
           THEN /\ mirror_i' = mirror_i + 1
                /\ UNCHANGED <<pc, fs, error, copied>>
           ELSE IF source \notin DOMAIN fs
           THEN /\ pc' = "failed"
                /\ error' = Raise("FileNotFoundError", "source.read_bytes()")
                /\ UNCHANGED <<mirror_i, fs, copied>>
           ELSE /\ fs' = put(fs, target, fs[source])
                /\ copied' = copied \cup {<<source, target>>}
                /\ mirror_i' = mirror_i + 1
                /\ UNCHANGED <<pc, error>>
    /\ UNCHANGED <<workbook, args, dirs, fs0, dirs0, main_records, records,
                   property_sets, csv_rows, produced, written, raw, raw_result>>

\* return produced; main prints and returns 0
MirrorDone ==
    /\ pc = "mirror"
    /\ mirror_i > Len(produced)
    /\ pc' = "done"
    /\ UNCHANGED <<workbook, args, fs, dirs, fs0, dirs0, main_records, records,
                   property_sets, csv_rows, produced, mirror_i, error, written,
                   copied, raw, raw_result>>

Next ==
    \/ MainLoadSource
    \/ GenerateLoadAndBuild
    \/ WriteMappingJson
    \/ WriteMappingCsv
    \/ WriteOptional
    \/ MirrorMkdir
    \/ MirrorFile
    \/ MirrorDone

Spec == Init /\ [][Next]_vars

----------------------------------------------------------------------------
(* MappingRecord.from_raw applied to one row *)

\* "Wall/Slab; Beam,Column"
MixedSeparators ==
    <<87,97,108,108,47,83,108,97,98,59,32,66,101,97,109,44,67,111,108,117,109,110>>

\* ; , newline / space W S
EntityAlphabet == {59, 44, 10, 47, 32, 87, 83}

EntityCells == SeqsUpTo(EntityAlphabet, MaxCellLen) \cup {MixedSeparators}

\* "", "IfcLabel", " IfcReal ", "IfcFoo", "ifclabel"
TypeCells ==
    {Empty, IfcLabel, <<32>> \o IfcReal \o <<32>>, <<73,102,99,70,111,111>>,
     <<105,102,99,108,97,98,101,108>>}

RawRows ==
    [PSet : {Empty, <<80>>},
     Nome_IFC : {Empty, <<32, 97, 32>>, CordhLength},
     Nome_Civil : {Empty, <<120>>},
     Tipo_IFC : TypeCells,
     Entita_IFC : EntityCells]

InitRaw ==
    /\ pc = "from_raw"
    /\ raw \in RawRows
    /\ raw_result = NoResult
    /\ workbook = [exists |-> FALSE, sheets |-> <<>>]
    /\ args = <<>>
    /\ fs = NoFiles /\ dirs = {} /\ fs0 = NoFiles /\ dirs0 = {}
    /\ main_records = <<>> /\ records = <<>>
    /\ property_sets = <<>> /\ csv_rows = <<>>
    /\ produced = <<>> /\ mirror_i = 0 /\ error = NoResult
    /\ written = {} /\ copied = {}

FromRaw ==
    /\ pc = "from_raw"
    /\ raw_result' = from_raw(raw)
    /\ pc' = "from_raw returned"
    /\ UNCHANGED <<runvars, records, property_sets, csv_rows, raw>>

NextRaw == FromRaw

SpecRaw == InitRaw /\ [][NextRaw]_vars

----------------------------------------------------------------------------
(* build_property_sets applied to a record list *)

\* psets "P", "Q"; names "a", "B"; civil names "x", "y";
\* entities ("W",), ("S", "W")
RecordSet ==
    [pset : {<<80>>, <<81>>},
     ifc_name : {<<97>>, <<66>>},
     civil_name : {<<120>>, <<121>>},
     ifc_type : {IfcLabel},
     entities : {<<<<87>>>>, <<<<83>>, <<87>>>>}]

InitBuild ==
    /\ pc = "build_property_sets"
    /\ records \in SeqsUpTo(RecordSet, MaxRecords)
    /\ property_sets = <<>> /\ csv_rows = <<>>
    /\ raw = <<>> /\ raw_result = NoResult
    /\ workbook = [exists |-> FALSE, sheets |-> <<>>]
    /\ args = <<>>
    /\ fs = NoFiles /\ dirs = {} /\ fs0 = NoFiles /\ dirs0 = {}
    /\ main_records = <<>>
    /\ produced = <<>> /\ mirror_i = 0 /\ error = NoResult
    /\ written = {} /\ copied = {}

BuildPropertySets ==
    /\ pc = "build_property_sets"
    /\ LET built == build_property_sets(records)
       IN  /\ property_sets' = built.property_sets
           /\ csv_rows' = built.csv_rows
    /\ pc' = "build_property_sets returned"
    /\ UNCHANGED <<runvars, records, raw, raw_result>>

NextBuild == BuildPropertySets

SpecBuild == InitBuild /\ [][NextBuild]_vars

----------------------------------------------------------------------------
(* Properties of a run of main (Spec) *)

\* the workbook is an existing file whose first sheet has every required
\* column after aliasing
WellFormed ==
    /\ workbook.exists
    /\ Len(workbook.sheets) >= 1
    /\ missing_columns(rename_columns(workbook.sheets[1].columns)) = <<>>

\* the rows of the first sheet, as load_source hands them to from_raw
FirstSheetRaws ==
    to_dict(rename_columns(workbook.sheets[1].columns), workbook.sheets[1].rows)

FirstSheetNamed == args.sheet = <<workbook.sheets[1].name>>

\* Nome_IFC after stripping and name correction
CorrectedName(r) ==
    IF strip(r.Nome_IFC) \in DOMAIN NAME_CORRECTIONS
    THEN NAME_CORRECTIONS[strip(r.Nome_IFC)] ELSE strip(r.Nome_IFC)

\* every character of the entities cell is a separator or white space
NoEntityFragment(r) ==
    \A k \in 1..Len(r.Entita_IFC) :
        r.Entita_IFC[k] \in Whitespace \cup {59, 44, 10, 47}

\* a row-level rule of the validator is broken by r
RowBreaksRule(r) ==
    \/ strip(r.PSet) = Empty
    \/ strip(r.Nome_IFC) = Empty
    \/ strip(r.Nome_Civil) = Empty
    \/ strip(r.Tipo_IFC) \notin ALLOWED_TYPES
    \/ NoEntityFragment(r)

SamePSet(r, q) == strip(r.PSet) = strip(q.PSet)

\* two rows of one PSet with the same property name
DuplicateProperty(raws) ==
    \E i, j \in 1..Len(raws) :
        i < j /\ SamePSet(raws[i], raws[j])
              /\ CorrectedName(raws[i]) = CorrectedName(raws[j])

\* two rows of one PSet with the same source attribute name, case ignored
DuplicateSourceAttribute(raws) ==
    \E i, j \in 1..Len(raws) :
        i < j /\ SamePSet(raws[i], raws[j])
              /\ lower(strip(raws[i].Nome_Civil)) = lower(strip(raws[j].Nome_Civil))

\* two rows of one PSet whose property names differ only in case
CaseOnlyDuplicate(raws) ==
    \E i, j \in 1..Len(raws) :
        i < j /\ SamePSet(raws[i], raws[j])
              /\ CorrectedName(raws[i]) # CorrectedName(raws[j])
              /\ lower(CorrectedName(raws[i])) = lower(CorrectedName(raws[j]))

ValidationFails(raws) ==
    \/ \E i \in 1..Len(raws) : RowBreaksRule(raws[i])
    \/ DuplicateProperty(raws)
    \/ DuplicateSourceAttribute(raws)

\* the run ended in load_source, not later
LoadRaised == pc = "failed" /\ error.detail # "source.read_bytes()"

Terminated == pc \in {"done", "failed"}

\* C1: rows of one PSet whose property names differ only in case, and that
\* break no other rule, make load_source fail with the duplicate-property
\* error and return no record list
C1_CaseOnlyDuplicateRejected ==
    (/\ pc # "main"
     /\ WellFormed
     /\ FirstSheetNamed
     /\ CaseOnlyDuplicate(FirstSheetRaws)
     /\ ~ValidationFails(FirstSheetRaws))
    => (LoadRaised /\ error.detail = "Duplicate IFC property" /\ main_records = <<>>)

\* C2: when validation fails on the rows, the run never gets past
\* load_source: no file and no directory is created or changed in the output
\* directory or in the config directory
C2_NothingWrittenWhenValidationFails ==
    (WellFormed /\ ValidationFails(FirstSheetRaws))
    => /\ pc \in {"main", "failed"}
       /\ fs = fs0
       /\ dirs = dirs0
       /\ written = {}
       /\ copied = {}

\* a full run (not --validate-only) over stale outputs that stopped on the
\* duplicate source attribute of a sheet whose rows each pass from_raw
C2_Witness ==
    /\ pc = "failed"
    /\ WellFormed
    /\ FirstSheetNamed
    /\ ~args.validate_only
    /\ fs0 # NoFiles
    /\ DuplicateSourceAttribute(FirstSheetRaws)
    /\ \A i \in 1..Len(FirstSheetRaws) : ~RowBreaksRule(FirstSheetRaws[i])
    /\ error.error = "ValueError"
    /\ error.detail = "Duplicate Civil 3D property name"

\* C3: a source that loads with zero rows ends a generating run (one without
\* --validate-only) with an EmptySource error, and nothing is written to the
\* output or the config directory
C3_EmptySourceFailsCleanly ==
    (/\ Terminated
     /\ ~args.validate_only
     /\ load_source(workbook, args.sheet).ok
     /\ load_source(workbook, args.sheet).value = <<>>)
    => (pc = "failed" /\ error.error = "EmptySource" /\ fs = fs0 /\ dirs = dirs0)

\* C4 as claimed: with output_dir and config_dir the same path, a run copies
\* nothing, and the files of the directory afterwards are those it had plus
\* those written by the primary output step
C4_NoCopyIntoSameDirectory ==
    (pc = "done" /\ ~args.validate_only /\ args.config_dir = args.output)
    => (copied = {} /\ DOMAIN fs = DOMAIN fs0 \cup written)

\* C4 as amended: with output_dir and config_dir the same path, a run that
\* completes never copies a file onto itself; it copies exactly
\* mapping_validated.json and mapping_validated.csv to their
\* IfcInfraExportPropertyMapping names, and the files of the directory
\* afterwards are those it had, those written by the primary output step
\* and these two copies
C4_SameDirectoryCopiesOnlyRenamed ==
    (pc = "done" /\ ~args.validate_only /\ args.config_dir = args.output)
    => /\ \A c \in copied : c[1] # c[2]
       /\ copied = {<<json_output,
                      <<args.config_dir, "IfcInfraExportPropertyMapping.json">>>>,
                    <<csv_output,
                      <<args.config_dir, "IfcInfraExportPropertyMapping.csv">>>>}
       /\ DOMAIN fs = DOMAIN fs0 \cup written \cup {c[2] : c \in copied}

\* a complete run with the optional files into one fresh shared directory
C4_Witness ==
    /\ pc = "done"
    /\ ~args.validate_only
    /\ ~args.skip_optional
    /\ args.config_dir = args.output
    /\ fs0 = NoFiles
    /\ Len(records) = 2
    /\ mirror_i = 5

PSetsOf(recs) == {recs[i].pset : i \in 1..Len(recs)}

\* C5: build_property_sets, given what load_source accepted, returns one
\* template per distinct PSet, in ascending order of PSet, each with its
\* Properties sorted by lowercased property name
C5_TemplatesAndPropertiesSorted ==
    pc = "write_json"
    => /\ Len(property_sets) = Cardinality(PSetsOf(records))
       /\ {property_sets[k].Name : k \in 1..Len(property_sets)} = PSetsOf(records)
       /\ \A k \in 1..Len(property_sets) - 1 :
            str_lt(property_sets[k].Name, property_sets[k + 1].Name)
       /\ \A k \in 1..Len(property_sets) :
            \A n \in 1..Len(property_sets[k].Properties) - 1 :
                str_le(lower(property_sets[k].Properties[n].Name),
                       lower(property_sets[k].Properties[n + 1].Name))

\* C9: with no sheet selected, load_source reads the first sheet of a
\* well-formed workbook and returns what it returns when that sheet is named
C9_DefaultSheetIsFirstSheet ==
    (/\ pc # "main"
     /\ args.sheet = <<>>
     /\ WellFormed
     /\ load_source(workbook, <<workbook.sheets[1].name>>).ok)
    => /\ ~LoadRaised
       /\ main_records = load_source(workbook, <<workbook.sheets[1].name>>).value
       /\ Len(main_records) = Len(workbook.sheets[1].rows)

----------------------------------------------------------------------------
(* Properties of MappingRecord.from_raw (SpecRaw) *)

\* the pieces of s cut at every single character of class
RECURSIVE CutAtEach(_, _)
CutAtEach(class, s) ==
    LET i == find_in(s, class, 1)
    IN  IF i > Len(s) THEN <<s>>
        ELSE <<SubSeq(s, 1, i - 1)>> \o CutAtEach(class, SubSeq(s, i + 1, Len(s)))

\* split on any of ; , newline /, each fragment trimmed, empty ones dropped
Fragments(cell) ==
    LET pieces == CutAtEach({59, 44, 10, 47}, cell)
        trimmed == [k \in 1..Len(pieces) |-> strip(pieces[k])]
    IN  SelectSeq(trimmed, LAMBDA f : f # Empty)

NoRepeats(seq) == \A i, j \in 1..Len(seq) : seq[i] = seq[j] => i = j

\* C7: an accepted row's entities are the trimmed non-empty fragments of the
\* Entita_IFC cell, a non-empty sequence without repeats; a cell without any
\* fragment is rejected
C7_EntitiesSplitAndDeduplicated ==
    pc = "from_raw returned"
    => /\ raw_result.ok =>
            /\ raw_result.value.entities = Fragments(raw.Entita_IFC)
            /\ raw_result.value.entities # <<>>
            /\ NoRepeats(raw_result.value.entities)
       /\ Fragments(raw.Entita_IFC) = <<>> => ~raw_result.ok

\* C8: from_raw raises a validation error for every row whose stripped
\* Tipo_IFC is not in ALLOWED_TYPES, the empty value included, and a record
\* it returns carries the stripped Tipo_IFC, a member of ALLOWED_TYPES
C8_TypeOutsideAllowListRejected ==
    pc = "from_raw returned"
    => /\ strip(raw.Tipo_IFC) \notin ALLOWED_TYPES =>
            (~raw_result.ok /\ raw_result.error = "ValueError")
       /\ raw_result.ok =>
            /\ raw_result.value.ifc_type \in ALLOWED_TYPES
            /\ raw_result.value.ifc_type = strip(raw.Tipo_IFC)

\* a row with an empty type and nothing else wrong, rejected for its type
C8_Witness ==
    /\ pc = "from_raw returned"
    /\ raw.Tipo_IFC = Empty
    /\ raw.PSet # Empty /\ raw.Nome_IFC # Empty /\ raw.Nome_Civil # Empty
    /\ Fragments(raw.Entita_IFC) # <<>>
    /\ ~raw_result.ok
    /\ raw_result.detail = "Tipo_IFC is not an allowed IFC measure type"

----------------------------------------------------------------------------
(* Properties of build_property_sets (SpecBuild) *)

Returned == pc = "build_property_sets returned"

\* the entities of the records whose pset is name
EntitiesOfGroup(recs, name) ==
    {e \in UNION {Range(recs[i].entities) : i \in 1..Len(recs)} :
        \E i \in 1..Len(recs) : recs[i].pset = name /\ e \in Range(recs[i].entities)}

\* C6: each template's ApplicableEntities is the ascending, repeat-free list
\* of exactly the entities of the records of its group
C6_ApplicableEntitiesIsGroupUnion ==
    Returned
    => \A k \in 1..Len(property_sets) :
         LET t == property_sets[k]
         IN  /\ Range(t.ApplicableEntities) = EntitiesOfGroup(records, t.Name)
             /\ \A n \in 1..Len(t.ApplicableEntities) - 1 :
                    str_lt(t.ApplicableEntities[n], t.ApplicableEntities[n + 1])

\* two groups, one of two records whose entity lists overlap, the other with
\* fewer entities
C6_Witness ==
    /\ Returned
    /\ Len(records) = 3
    /\ Len(property_sets) = 2
    /\ records[1].pset = records[3].pset
    /\ records[1].entities # records[3].entities
    /\ Len(property_sets[1].ApplicableEntities) # Len(property_sets[2].ApplicableEntities)

\* <<Name, property Name, property CivilName>> template by template
RECURSIVE Flattened(_)
Flattened(templates) ==
    IF templates = <<>> THEN <<>>
    ELSE LET t == Head(templates)
         IN  [n \in 1..Len(t.Properties) |->
                <<t.Name, t.Properties[n].Name, t.Properties[n].CivilName>>]
             \o Flattened(Tail(templates))

\* C10: csv_rows has one row per record and is the flattening of the
\* templates, in their order and the order of their Properties; every row
\* is active and of group Property
C10_CsvRowsFlattenTemplates ==
    Returned
    => /\ Len(csv_rows) = Len(records)
       /\ [n \in 1..Len(csv_rows) |->
             <<csv_rows[n].PSet, csv_rows[n].IFCName, csv_rows[n].CivilSource>>]
          = Flattened(property_sets)
       /\ \A n \in 1..Len(csv_rows) :
             csv_rows[n].IsActive = "TRUE" /\ csv_rows[n].Group = "Property"

\* three records in two groups, given out of order
C10_Witness ==
    /\ Returned
    /\ Len(csv_rows) = 3
    /\ Len(property_sets) = 2
    /\ csv_rows[1].PSet # records[1].pset
    /\ csv_rows[2].IFCName # csv_rows[3].IFCName

====
